---- MODULE Spec2Model ----
(***************************************************************************)
(* Model of study_planner.py (StudyOS), a Streamlit script.  Every user    *)
(* interaction re-runs the whole script against st.session_state; an       *)
(* action below is one interaction followed by that re-run, and `screen`   *)
(* is what the re-run rendered.                                            *)
(***************************************************************************)
EXTENDS Integers, Sequences, FiniteSets, TLC

VARIABLES
    tasks,             \* st.session_state['tasks']
    resources,         \* st.session_state['resources']
    page,              \* the sidebar radio
    filter_status,     \* the "Filter by Status:" selectbox
    edited_df,         \* the table held (and returned) by st.data_editor
    selected_subject,  \* the "Select Subject:" selectbox
    uploaded_file,     \* the st.file_uploader widget
    screen             \* what the last run of the script rendered

vars == <<tasks, resources, page, filter_status, edited_df,
          selected_subject, uploaded_file, screen>>

(* ------------------------------ bounds --------------------------------- *)
\* the session is followed until the two stores hold this many entries
MaxItems == 3

(* ------------------------- values the user enters ---------------------- *)
\* the forms submitted with "Add Task"
TaskForms ==
    { [subject |-> "", chapter |-> "Ch1", topic |-> "",
       due_date |-> 20240110, priority |-> "High"],
      [subject |-> " ", chapter |-> "Ch1", topic |-> "",
       due_date |-> 20240110, priority |-> "High"],
      [subject |-> "Math", chapter |-> "", topic |-> "",
       due_date |-> 20240110, priority |-> "High"],
      [subject |-> "Physics", chapter |-> " ", topic |-> "",
       due_date |-> 20240111, priority |-> "Low"],
      [subject |-> "Math", chapter |-> "Ch1", topic |-> "Topic A",
       due_date |-> 20240110, priority |-> "High"] }
\* the subjects picked in "Select Subject:"
SubjectInputs == {" ", "Math", "Physics"}
UrlInputs == {"", "https://x"}
DescInputs == {"d"}
FileInputs ==
    { [name |-> "notes.pdf", type |-> "application/pdf", size |-> 0],
      [name |-> "map.png", type |-> "image/png", size |-> 1] }

(* --------------------------- program constants ------------------------- *)
Pages == {"Dashboard", "Task Planner", "Resource Hub"}
DefaultSubjects == <<"Math", "Physics", "History", "Biology">>
FilterOptions == {"All", "Pending", "Done"}
StatusOptions == {"Pending", "In Progress", "Done"}
NoFile == [name |-> "", type |-> "", size |-> 0]

(* ------------------------------ helpers -------------------------------- *)
\* Python truth value of a str: only the empty string is falsy.
Truthy(s) == s # ""

Column(T, c) == [i \in DOMAIN T |-> T[i][c]]

RemoveAt(s, i) == [k \in 1..(Len(s) - 1) |-> IF k < i THEN s[k] ELSE s[k + 1]]

\* get_subjects(): the defaults, or the set of subjects in use.
get_subjects(T) ==
    IF T = <<>> THEN {DefaultSubjects[i] : i \in DOMAIN DefaultSubjects}
    ELSE {T[i].Subject : i \in DOMAIN T}

\* The option a fresh "Select Subject:" selectbox shows (index 0 of the list):
\* the first default, or any subject when the list comes from a Python set.
first_subject(T) ==
    IF T = <<>> THEN {DefaultSubjects[1]} ELSE get_subjects(T)

\* a new task created with a label outside the Status options
NewTask_Lowercase(subject, chapter, topic, due_date, priority) ==
    [Subject |-> subject, Chapter |-> chapter, Topic |-> topic,
     DueDate |-> due_date, Priority |-> priority, Status |-> "pending"]

\* a new task created with Subject and Chapter exchanged
NewTask_Swapped(subject, chapter, topic, due_date, priority) ==
    [Subject |-> chapter, Chapter |-> subject, Topic |-> topic,
     DueDate |-> due_date, Priority |-> priority, Status |-> "Pending"]

NewTask(subject, chapter, topic, due_date, priority) ==
    [Subject |-> subject, Chapter |-> chapter, Topic |-> topic,
     DueDate |-> due_date, Priority |-> priority, Status |-> "Pending"]

\* df_tasks: the frame handed to the editor.
df_tasks(T, f) ==
    IF f = "All" THEN T ELSE SelectSeq(T, LAMBDA t : t.Status = f)

(* ----------------------------- dashboard ------------------------------- *)
CountOf(col, v) == Cardinality({i \in DOMAIN col : col[i] = v})

FirstIndex(col, v) == CHOOSE i \in DOMAIN col :
    col[i] = v /\ \A j \in DOMAIN col : col[j] = v => i <= j

\* counting without the sort by frequency (value_counts(sort=False))
value_counts_Unsorted(col) ==
    LET vals == {col[i] : i \in DOMAIN col}
        Rank(v) == Cardinality({w \in vals :
                        FirstIndex(col, w) < FirstIndex(col, v)})
    IN  [k \in 1..Cardinality(vals) |->
            LET v == CHOOSE x \in vals : Rank(x) = k - 1
            IN  [value |-> v, count |-> CountOf(col, v)]]

\* pandas Series.value_counts(): one row per distinct value, most frequent
\* first; equal counts keep the order of first appearance.
value_counts(col) ==
    LET vals == {col[i] : i \in DOMAIN col}
        Before(w, v) ==
            \/ CountOf(col, w) > CountOf(col, v)
            \/ /\ CountOf(col, w) = CountOf(col, v)
               /\ FirstIndex(col, w) < FirstIndex(col, v)
        Rank(v) == Cardinality({w \in vals : Before(w, v)})
    IN  [k \in 1..Cardinality(vals) |->
            LET v == CHOOSE x \in vals : Rank(x) = k - 1
            IN  [value |-> v, count |-> CountOf(col, v)]]

\* the percentage rounded to the nearest integer instead of truncated
completion_rate_Rounded(completed, total_tasks) ==
    IF total_tasks > 0
    THEN (2 * completed * 100 + total_tasks) \div (2 * total_tasks)
    ELSE 0

\* int((completed / total_tasks) * 100) if total_tasks > 0 else 0.  The
\* double-precision product truncates to the exact quotient for every
\* total_tasks below 50.
completion_rate(completed, total_tasks) ==
    IF total_tasks > 0 THEN (completed * 100) \div total_tasks ELSE 0

RenderDashboard(T) ==
    IF T = <<>>
    THEN [view |-> "demo", metrics |-> <<"5", "12.5", "2 Days">>]
    ELSE LET total_tasks == Len(T)
             completed == Len(SelectSeq(T, LAMBDA t : t.Status = "Done"))
             pending == total_tasks - completed
         IN  [view |-> "kpis",
              total_tasks |-> total_tasks,
              completed |-> completed,
              pending |-> pending,
              completion_rate |-> completion_rate(completed, total_tasks),
              subj_counts |-> value_counts(Column(T, "Subject")),
              status_counts |-> value_counts(Column(T, "Status"))]

(* ---------------------------- task planner ----------------------------- *)
RenderPlanner(T, msg) ==
    [view |-> "planner",
     msg |-> msg,
     info |-> IF T = <<>> THEN "No tasks yet. Add one above!" ELSE ""]

(* ---------------------------- resource hub ----------------------------- *)
ListLinks(R, subject) ==
    SelectSeq(R, LAMBDA res : res.Type = "Link" /\ res.Subject = subject)

\* the video loop without the test on the subject
ListVideos_AnySubject(R, subject) ==
    SelectSeq(R, LAMBDA res : res.Type = "Video")

ListVideos(R, subject) ==
    SelectSeq(R, LAMBDA res : res.Type = "Video" /\ res.Subject = subject)

Preview(f) ==
    IF f = NoFile THEN "none"
    ELSE IF f.type = "application/pdf" THEN "download_button" ELSE "image"

RenderHub(R, subject, f, msg) ==
    [view |-> "hub",
     msg |-> msg,
     links |-> ListLinks(R, subject),
     videos |-> ListVideos(R, subject),
     preview |-> Preview(f)]

(* ------------------------------- Init ---------------------------------- *)
Init ==
    /\ tasks = <<>>
    /\ resources = <<>>
    /\ page = "Dashboard"
    /\ filter_status = "All"
    /\ edited_df = <<>>
    /\ selected_subject = ""
    /\ uploaded_file = NoFile
    /\ screen = RenderDashboard(tasks)

(* ------------------------------ actions -------------------------------- *)
\* The sidebar radio: widgets of the page left behind lose their state.
GoTo(p) ==
    /\ p \in Pages
    /\ p # page
    /\ page' = p
    /\ filter_status' = "All"
    /\ uploaded_file' = NoFile
    /\ UNCHANGED <<tasks, resources>>
    /\ edited_df' = IF p = "Task Planner" THEN df_tasks(tasks, "All") ELSE <<>>
    /\ IF p = "Resource Hub"
       THEN selected_subject' \in first_subject(tasks)
       ELSE selected_subject' = ""
    /\ screen' = CASE p = "Dashboard" -> RenderDashboard(tasks)
                   [] p = "Task Planner" -> RenderPlanner(tasks, "")
                   [] OTHER -> RenderHub(resources, selected_subject', NoFile, "")

\* The "Add Task" button.
AddTask(subject, chapter, topic, due_date, priority) ==
    /\ page = "Task Planner"
    /\ IF Truthy(subject) /\ Truthy(chapter)
       THEN /\ Len(tasks) + Len(resources) < MaxItems
            /\ tasks' = Append(tasks,
                    NewTask(subject, chapter, topic, due_date, priority))
            \* st.rerun(): the script starts over and draws the new frame
            /\ edited_df' = df_tasks(tasks', filter_status)
            /\ screen' = RenderPlanner(tasks', "")
       ELSE /\ UNCHANGED <<tasks, edited_df>>
            /\ screen' = RenderPlanner(tasks,
                    "Please fill in at least Subject and Chapter.")
    /\ UNCHANGED <<resources, page, filter_status, selected_subject,
                   uploaded_file>>

\* The "Filter by Status:" selectbox; the editor keeps its edits only while
\* it is handed the same frame.
SetFilter(f) ==
    /\ page = "Task Planner"
    /\ tasks # <<>>
    /\ f \in FilterOptions
    /\ f # filter_status
    /\ filter_status' = f
    /\ edited_df' = IF df_tasks(tasks, f) = df_tasks(tasks, filter_status)
                    THEN edited_df ELSE df_tasks(tasks, f)
    /\ screen' = RenderPlanner(tasks, "")
    /\ UNCHANGED <<tasks, resources, page, selected_subject, uploaded_file>>

\* the edit written back to the session state
EditStatus_Synced(i, s) ==
    /\ page = "Task Planner"
    /\ tasks # <<>>
    /\ i \in DOMAIN edited_df
    /\ s \in StatusOptions
    /\ s # edited_df[i].Status
    /\ edited_df' = [edited_df EXCEPT ![i].Status = s]
    /\ tasks' = IF i \in DOMAIN tasks
                THEN [tasks EXCEPT ![i].Status = s] ELSE tasks
    /\ screen' = RenderPlanner(tasks', "")
    /\ UNCHANGED <<resources, page, filter_status, selected_subject,
                   uploaded_file>>

\* A Status cell of the editor is changed; edited_df is never written back.
EditStatus(i, s) ==
    /\ page = "Task Planner"
    /\ tasks # <<>>
    /\ i \in DOMAIN edited_df
    /\ s \in StatusOptions
    /\ s # edited_df[i].Status
    /\ edited_df' = [edited_df EXCEPT ![i].Status = s]
    /\ screen' = RenderPlanner(tasks, "")
    /\ UNCHANGED <<tasks, resources, page, filter_status, selected_subject,
                   uploaded_file>>

\* A row of the editor is deleted (num_rows="dynamic").
DeleteRow(i) ==
    /\ page = "Task Planner"
    /\ tasks # <<>>
    /\ i \in DOMAIN edited_df
    /\ edited_df' = RemoveAt(edited_df, i)
    /\ screen' = RenderPlanner(tasks, "")
    /\ UNCHANGED <<tasks, resources, page, filter_status, selected_subject,
                   uploaded_file>>

\* The "Select Subject:" selectbox.
SelectSubject(s) ==
    /\ page = "Resource Hub"
    /\ s \in get_subjects(tasks)
    /\ s # selected_subject
    /\ selected_subject' = s
    /\ screen' = RenderHub(resources, s, uploaded_file, "")
    /\ UNCHANGED <<tasks, resources, page, filter_status, edited_df,
                   uploaded_file>>

\* The "Save Link" button.
SaveLink(link_url, link_desc) ==
    /\ page = "Resource Hub"
    /\ Len(tasks) + Len(resources) < MaxItems
    /\ resources' = Append(resources,
            [Subject |-> selected_subject, Type |-> "Link",
             Content |-> link_url, Desc |-> link_desc])
    /\ screen' = RenderHub(resources', selected_subject, uploaded_file,
                           "Link Saved!")
    /\ UNCHANGED <<tasks, page, filter_status, edited_df, selected_subject,
                   uploaded_file>>

\* The "Add Video" button.
AddVideo(video_url) ==
    /\ page = "Resource Hub"
    /\ Len(tasks) + Len(resources) < MaxItems
    /\ resources' = Append(resources,
            [Subject |-> selected_subject, Type |-> "Video",
             Content |-> video_url])
    /\ screen' = RenderHub(resources', selected_subject, uploaded_file, "")
    /\ UNCHANGED <<tasks, page, filter_status, edited_df, selected_subject,
                   uploaded_file>>

\* The file uploader: the file is previewed, never stored.
UploadFile(f) ==
    /\ page = "Resource Hub"
    /\ f \in FileInputs
    /\ f # uploaded_file
    /\ uploaded_file' = f
    /\ screen' = RenderHub(resources, selected_subject, f, "")
    /\ UNCHANGED <<tasks, resources, page, filter_status, edited_df,
                   selected_subject>>

Next ==
    \/ \E p \in Pages : GoTo(p)
    \/ \E f \in TaskForms :
            AddTask(f.subject, f.chapter, f.topic, f.due_date, f.priority)
    \/ \E f \in FilterOptions : SetFilter(f)
    \/ \E i \in 1..MaxItems, s \in StatusOptions : EditStatus(i, s)
    \/ \E i \in 1..MaxItems : DeleteRow(i)
    \/ \E s \in SubjectInputs : SelectSubject(s)
    \/ \E link_url \in UrlInputs, link_desc \in DescInputs :
            SaveLink(link_url, link_desc)
    \/ \E video_url \in UrlInputs : AddVideo(video_url)
    \/ \E f \in FileInputs : UploadFile(f)

Spec == Init /\ [][Next]_vars

(* ------------------- the aggregation over any task list ---------------- *)
\* The dashboard's computation is a function of the task list alone; here it
\* is applied to every list of up to MaxItems tasks in any status.
AnyTask ==
    { [Subject |-> "Math", Chapter |-> "Ch1", Topic |-> "",
       DueDate |-> 20240110, Priority |-> "High", Status |-> status] :
        status \in StatusOptions }

InitAgg ==
    /\ tasks \in UNION {[1..n -> AnyTask] : n \in 0..MaxItems}
    /\ resources = <<>>
    /\ page = "Dashboard"
    /\ filter_status = "All"
    /\ edited_df = <<>>
    /\ selected_subject = ""
    /\ uploaded_file = NoFile
    /\ screen = RenderDashboard(tasks)

SpecAgg == InitAgg /\ [][Next]_vars

(* ============================== properties ============================= *)
\* str.strip() == "" among the strings entered
Blank == {"", " "}
ValidationError == "Please fill in at least Subject and Chapter."
DoneCount(T) == Cardinality({i \in DOMAIN T : T[i].Status = "Done"})
IsAppend(s, t) == Len(t) = Len(s) + 1 /\ SubSeq(t, 1, Len(s)) = s

\* C1: an add-task whose subject or chapter is empty or only whitespace
\* fails with the validation error and leaves the Task Store unchanged.
C1_BlankRejected ==
    [][\A f \in TaskForms :
          (/\ f.subject \in Blank \/ f.chapter \in Blank
           /\ AddTask(f.subject, f.chapter, f.topic, f.due_date, f.priority))
          => (tasks' = tasks /\ screen'.msg = ValidationError)]_vars

\* C2: after the status of a row that was not Done is set to Done, the KPI
\* computation counts one more completed and one fewer pending task, with
\* the same total.
C2_DoneCountedOnce ==
    [][\A i \in 1..MaxItems :
          EditStatus(i, "Done")
          => LET before == RenderDashboard(tasks)
                 after == RenderDashboard(tasks')
             IN  /\ after.completed = before.completed + 1
                 /\ after.pending = before.pending - 1
                 /\ after.total_tasks = before.total_tasks]_vars

\* C3: after the row at position i is removed, listing all tasks gives the
\* original sequence without element i, the others in their order.
C3_RemoveShiftsDown ==
    [][\A i \in 1..MaxItems :
          (DeleteRow(i) /\ i \in DOMAIN tasks)
          => df_tasks(tasks', "All") = RemoveAt(df_tasks(tasks, "All"), i)]_vars

\* 100 * done / total rounded to the nearest integer (ties to even)
RoundPercent(done, total) ==
    LET q == (200 * done + total) \div (2 * total)
        tie == (200 * done + total) % (2 * total) = 0
    IN  IF tie /\ q % 2 = 1 THEN q - 1 ELSE q

C5_AddAppendsPending ==
    [][\A f \in TaskForms :
          (/\ f.subject # "" /\ f.chapter # ""
           /\ AddTask(f.subject, f.chapter, f.topic, f.due_date, f.priority))
          => /\ IsAppend(tasks, tasks')
             /\ tasks'[Len(tasks')] =
                    [Subject |-> f.subject, Chapter |-> f.chapter,
                     Topic |-> f.topic, DueDate |-> f.due_date,
                     Priority |-> f.priority, Status |-> "Pending"]]_vars

C5_Witness ==
    /\ Len(tasks) = 3
    /\ tasks[1].Subject = "Physics"
    /\ tasks[3].Subject = "Math"
    /\ tasks[3].Topic = "Topic A"

\* C6: saving a link or a video with an empty URL, or a file without bytes,
\* fails with a validation error and leaves the Resource Store unchanged;
\* any other content is appended to the Resource Store.
C6_EmptyContentRejected ==
    [][/\ \A d \in DescInputs :
            SaveLink("", d) => (resources' = resources /\ screen'.msg # "Link Saved!")
       /\ AddVideo("") => resources' = resources
       /\ \A f \in FileInputs :
            UploadFile(f) =>
                IF f.size = 0 THEN resources' = resources
                ELSE IsAppend(resources, resources')]_vars

\* the stored resources of one kind and subject, in insertion order
Matching(kind, subject) ==
    LET I == {i \in DOMAIN resources :
                resources[i].Type = kind /\ resources[i].Subject = subject}
    IN  [n \in 1..Cardinality(I) |->
            resources[CHOOSE i \in I : Cardinality({j \in I : j <= i}) = n]]

C8_StatusInOptions ==
    \A i \in DOMAIN tasks :
        tasks[i].Status \in {"Pending", "In Progress", "Done"}

C8_Witness ==
    /\ Len(tasks) = 2
    /\ page = "Task Planner"
    /\ Len(edited_df) = 2
    /\ edited_df[1].Status = "In Progress"
    /\ edited_df[2].Status = "Done"

\* the rows count every value of the column once, with its frequency
CountsOf(rows, col) ==
    /\ \A k \in DOMAIN rows :
          rows[k].count = CountOf(col, rows[k].value) /\ rows[k].count > 0
    /\ \A i \in DOMAIN col : \E k \in DOMAIN rows : rows[k].value = col[i]
    /\ \A k, m \in DOMAIN rows : rows[k].value = rows[m].value => k = m

ByFirstAppearance(rows, col) ==
    \A k, m \in DOMAIN rows :
        k < m => FirstIndex(col, rows[k].value) < FirstIndex(col, rows[m].value)

ByFrequency(rows) ==
    \A k, m \in DOMAIN rows : k < m => rows[k].count >= rows[m].count

\* C9: the per-subject and per-status counts have one entry per value
\* present with its number of tasks, and the entries are in order of first
\* appearance in the task sequence.
C9_FirstAppearance ==
    (page = "Dashboard" /\ tasks # <<>>) =>
        /\ CountsOf(screen.subj_counts, Column(tasks, "Subject"))
        /\ CountsOf(screen.status_counts, Column(tasks, "Status"))
        /\ ByFirstAppearance(screen.subj_counts, Column(tasks, "Subject"))
        /\ ByFirstAppearance(screen.status_counts, Column(tasks, "Status"))

\* C9 as amended: for a non-empty task sequence the counts have one entry
\* per value present with its number of tasks, and the entries are in order
\* of decreasing count; for the empty store no counts are drawn.
C9_MostFrequentFirst ==
    page = "Dashboard" =>
        IF tasks = <<>>
        THEN screen.view = "demo"
        ELSE /\ CountsOf(screen.subj_counts, Column(tasks, "Subject"))
             /\ CountsOf(screen.status_counts, Column(tasks, "Status"))
             /\ ByFrequency(screen.subj_counts)
             /\ ByFrequency(screen.status_counts)

C9_Witness ==
    /\ page = "Dashboard"
    /\ Len(tasks) = 3
    /\ tasks[1].Subject = "Physics"
    /\ screen.subj_counts = << [value |-> "Math", count |-> 2],
                               [value |-> "Physics", count |-> 1] >>
    /\ screen.status_counts = << [value |-> "Pending", count |-> 3] >>

\* C10: the Task Store changes only by one task appended at its end; every
\* stored task stays Pending, and the dashboard's completed count and
\* completion rate are 0.
C10_AppendOnlyAllPending ==
    /\ [](\A i \in DOMAIN tasks : tasks[i].Status = "Pending")
    /\ [](screen.view = "kpis" =>
            screen.completed = 0 /\ screen.completion_rate = 0)
    /\ [][tasks' = tasks \/ IsAppend(tasks, tasks')]_vars

C10_Witness ==
    /\ page = "Task Planner"
    /\ Len(tasks) = 2
    /\ Len(edited_df) = 1
    /\ edited_df[1].Status = "Done"
    /\ Len(resources) = 1

====
